---- MODULE Spec2Model ----
(***************************************************************************)
(* The code-blocks extension: pair selection (findContainingPair of        *)
(* src/utilities/selectionUtils.ts, the selectInside and                   *)
(* selectSurroundingPair commands of src/BlockMode.ts), the block commands *)
(* and the target highlights of block mode (src/BlockMode.ts), and the     *)
(* active FileTree kept by the extension's listeners (src/extension.ts),   *)
(* over a handful of single-line documents and their syntax trees.         *)
(*                                                                         *)
(* All documents are one line long, so a vscode.Position / tree-sitter     *)
(* Point (row 0, column c) is the column c, and a vscode.Range is a record *)
(* [start, end] of columns.  A vscode.Selection is modelled by its range:  *)
(* the commands read selection.start and Range.isEqual, which ignore the   *)
(* direction, and write new Selection(start, end), whose active end, the   *)
(* one selectBlock reads, is its end.                                      *)
(*                                                                         *)
(* Five specifications share the variables: Spec (pair commands on any     *)
(* document), SpecPair (findContainingPair from any node), SpecBlock       *)
(* (block commands and highlights on a parsed document), SpecExt (the      *)
(* editors, the awaited parses and the toggles) and SpecMigration (the     *)
(* migration of the original extension's parsers over activations).        *)
(***************************************************************************)
EXTENDS Integers, Sequences, FiniteSets, TLC

\* ---------------------------------------------------------------- bounds
\* most cursors the user places in one editor
MaxCursors == 2
\* most successive selectInside calls counted after a cursor was placed
MaxCalls == 6

\* ------------------------------------------------------------ syntax trees
\* SyntaxNode | null | undefined: node ids are 1..Len(tree); 0 is no node
Null == 0
\* activeTextEditor / activeFileTree undefined; a defined one is a document id
Undefined == 0

\* a SyntaxNode: its type, whether it is named, its range, parent and children
N(type, named, s, e, parent, children) ==
    [type |-> type, named |-> named, startPosition |-> s, endPosition |-> e,
     parent |-> parent, children |-> children]

\* `x={ f:(ba) }`: the shape of `const x = { foo: (bar) };` (first test)
DocObjParen ==
    << N("program", TRUE, 0, 12, 0, <<2>>),
       N("expression_statement", TRUE, 0, 12, 1, <<3>>),
       N("assignment_expression", TRUE, 0, 12, 2, <<4, 5, 6>>),
       N("identifier", TRUE, 0, 1, 3, <<>>),
       N("=", FALSE, 1, 2, 3, <<>>),
       N("object", TRUE, 2, 12, 3, <<7, 8, 15>>),
       N("{", FALSE, 2, 3, 6, <<>>),
       N("pair", TRUE, 4, 10, 6, <<9, 10, 11>>),
       N("property_identifier", TRUE, 4, 5, 8, <<>>),
       N(":", FALSE, 5, 6, 8, <<>>),
       N("parenthesized_expression", TRUE, 6, 10, 8, <<12, 13, 14>>),
       N("(", FALSE, 6, 7, 11, <<>>),
       N("identifier", TRUE, 7, 9, 11, <<>>),
       N(")", FALSE, 9, 10, 11, <<>>),
       N("}", FALSE, 11, 12, 6, <<>>) >>

\* `f({k:["s"]})`: the shape of `useQuery({ key: ["value"] });` (second test)
DocCall ==
    << N("program", TRUE, 0, 12, 0, <<2>>),
       N("expression_statement", TRUE, 0, 12, 1, <<3>>),
       N("call_expression", TRUE, 0, 12, 2, <<4, 5>>),
       N("identifier", TRUE, 0, 1, 3, <<>>),
       N("arguments", TRUE, 1, 12, 3, <<6, 7, 19>>),
       N("(", FALSE, 1, 2, 5, <<>>),
       N("object", TRUE, 2, 11, 5, <<8, 9, 18>>),
       N("{", FALSE, 2, 3, 7, <<>>),
       N("pair", TRUE, 3, 10, 7, <<10, 11, 12>>),
       N("property_identifier", TRUE, 3, 4, 9, <<>>),
       N(":", FALSE, 4, 5, 9, <<>>),
       N("array", TRUE, 5, 10, 9, <<13, 14, 17>>),
       N("[", FALSE, 5, 6, 12, <<>>),
       N("string", TRUE, 6, 9, 12, <<15, 16, 20>>),
       N("\"", FALSE, 6, 7, 14, <<>>),
       N("string_fragment", TRUE, 7, 8, 14, <<>>),
       N("]", FALSE, 9, 10, 12, <<>>),
       N("}", FALSE, 10, 11, 7, <<>>),
       N(")", FALSE, 11, 12, 5, <<>>),
       N("\"", FALSE, 8, 9, 14, <<>>) >>

\* `<d><p>hi</p></d>`: the shape of `<div><p>hello</p></div>` (fourth test)
DocJsx ==
    << N("program", TRUE, 0, 16, 0, <<2>>),
       N("expression_statement", TRUE, 0, 16, 1, <<3>>),
       N("jsx_element", TRUE, 0, 16, 2, <<4, 8, 18>>),
       N("jsx_opening_element", TRUE, 0, 3, 3, <<5, 6, 7>>),
       N("<", FALSE, 0, 1, 4, <<>>),
       N("identifier", TRUE, 1, 2, 4, <<>>),
       N(">", FALSE, 2, 3, 4, <<>>),
       N("jsx_element", TRUE, 3, 12, 3, <<9, 13, 14>>),
       N("jsx_opening_element", TRUE, 3, 6, 8, <<10, 11, 12>>),
       N("<", FALSE, 3, 4, 9, <<>>),
       N("identifier", TRUE, 4, 5, 9, <<>>),
       N(">", FALSE, 5, 6, 9, <<>>),
       N("jsx_text", TRUE, 6, 8, 8, <<>>),
       N("jsx_closing_element", TRUE, 8, 12, 8, <<15, 16, 17>>),
       N("</", FALSE, 8, 10, 14, <<>>),
       N("identifier", TRUE, 10, 11, 14, <<>>),
       N(">", FALSE, 11, 12, 14, <<>>),
       N("jsx_closing_element", TRUE, 12, 16, 3, <<19, 20, 21>>),
       N("</", FALSE, 12, 14, 18, <<>>),
       N("identifier", TRUE, 14, 15, 18, <<>>),
       N(">", FALSE, 15, 16, 18, <<>>) >>

\* `[(a),b]`: a pair whose content starts with a nested pair
DocArr ==
    << N("program", TRUE, 0, 7, 0, <<2>>),
       N("expression_statement", TRUE, 0, 7, 1, <<3>>),
       N("array", TRUE, 0, 7, 2, <<4, 5, 9, 10, 11>>),
       N("[", FALSE, 0, 1, 3, <<>>),
       N("parenthesized_expression", TRUE, 1, 4, 3, <<6, 7, 8>>),
       N("(", FALSE, 1, 2, 5, <<>>),
       N("identifier", TRUE, 2, 3, 5, <<>>),
       N(")", FALSE, 3, 4, 5, <<>>),
       N(",", FALSE, 4, 5, 3, <<>>),
       N("identifier", TRUE, 5, 6, 3, <<>>),
       N("]", FALSE, 6, 7, 3, <<>>) >>

\* `42`: a bare top-level numeric literal, no enclosing pair
DocNum ==
    << N("program", TRUE, 0, 2, 0, <<2>>),
       N("expression_statement", TRUE, 0, 2, 1, <<3>>),
       N("number", TRUE, 0, 2, 2, <<>>) >>

\* `f(a)(b)`: two pairs side by side
DocCallCall ==
    << N("program", TRUE, 0, 7, 0, <<2>>),
       N("expression_statement", TRUE, 0, 7, 1, <<3>>),
       N("call_expression", TRUE, 0, 7, 2, <<4, 10>>),
       N("call_expression", TRUE, 0, 4, 3, <<5, 6>>),
       N("identifier", TRUE, 0, 1, 4, <<>>),
       N("arguments", TRUE, 1, 4, 4, <<7, 8, 9>>),
       N("(", FALSE, 1, 2, 6, <<>>),
       N("identifier", TRUE, 2, 3, 6, <<>>),
       N(")", FALSE, 3, 4, 6, <<>>),
       N("arguments", TRUE, 4, 7, 3, <<11, 12, 13>>),
       N("(", FALSE, 4, 5, 10, <<>>),
       N("identifier", TRUE, 5, 6, 10, <<>>),
       N(")", FALSE, 6, 7, 10, <<>>) >>

\* `f("s")` under a grammar whose string literal is a single token: the
\* string node has no children
DocLeafString ==
    << N("compilation_unit", TRUE, 0, 6, 0, <<2>>),
       N("call_expression", TRUE, 0, 6, 1, <<3, 4>>),
       N("identifier", TRUE, 0, 1, 2, <<>>),
       N("arguments", TRUE, 1, 6, 2, <<5, 6, 7>>),
       N("(", FALSE, 1, 2, 4, <<>>),
       N("string", TRUE, 2, 5, 4, <<>>),
       N(")", FALSE, 5, 6, 4, <<>>) >>

\* `"\n"`: a string whose only child is an escape sequence (a grammar whose
\* quotes are part of the string's own token): first child = last child
DocOneChild ==
    << N("document", TRUE, 0, 4, 0, <<2>>),
       N("string", TRUE, 0, 4, 1, <<3>>),
       N("escape_sequence", TRUE, 1, 3, 2, <<>>) >>

\* `(<p>x)`: a jsx_element whose last child is not a jsx_closing_element,
\* inside a parenthesized expression
DocJsxUnclosed ==
    << N("program", TRUE, 0, 6, 0, <<2>>),
       N("parenthesized_expression", TRUE, 0, 6, 1, <<3, 4, 7>>),
       N("(", FALSE, 0, 1, 2, <<>>),
       N("jsx_element", TRUE, 1, 5, 2, <<5, 6>>),
       N("jsx_opening_element", TRUE, 1, 4, 4, <<>>),
       N("jsx_text", TRUE, 4, 5, 4, <<>>),
       N(")", FALSE, 5, 6, 2, <<>>) >>

\* `{a;b;c;}d;`: a block of three statements followed by a statement
DocStatements ==
    << N("program", TRUE, 0, 10, 0, <<2, 14>>),
       N("statement_block", TRUE, 0, 8, 1, <<3, 4, 7, 10, 13>>),
       N("{", FALSE, 0, 1, 2, <<>>),
       N("expression_statement", TRUE, 1, 3, 2, <<5, 6>>),
       N("identifier", TRUE, 1, 2, 4, <<>>),
       N(";", FALSE, 2, 3, 4, <<>>),
       N("expression_statement", TRUE, 3, 5, 2, <<8, 9>>),
       N("identifier", TRUE, 3, 4, 7, <<>>),
       N(";", FALSE, 4, 5, 7, <<>>),
       N("expression_statement", TRUE, 5, 7, 2, <<11, 12>>),
       N("identifier", TRUE, 5, 6, 10, <<>>),
       N(";", FALSE, 6, 7, 10, <<>>),
       N("}", FALSE, 7, 8, 2, <<>>),
       N("expression_statement", TRUE, 8, 10, 1, <<15, 16>>),
       N("identifier", TRUE, 8, 9, 14, <<>>),
       N(";", FALSE, 9, 10, 14, <<>>) >>

\* the documents an editor can show, by id
Documents ==
    << DocObjParen, DocCall, DocJsx, DocArr, DocNum, DocCallCall, DocLeafString,
       DocOneChild, DocJsxUnclosed, DocStatements >>

Docs == 1..Len(Documents)

\* fileTree.tree of document d
Tree(d) == Documents[d]

\* fileTree.tree.rootNode
rootNode == 1

Nodes(t) == 1..Len(t)

\* the columns of document d: 0 .. its length (none without a document)
Positions(d) == IF d = Undefined THEN {} ELSE 0..Tree(d)[rootNode].endPosition

\* node.firstChild, node.lastChild, node.parent
firstChild(t, n) == IF t[n].children = <<>> THEN Null ELSE t[n].children[1]

lastChild(t, n) ==
    IF t[n].children = <<>> THEN Null ELSE t[n].children[Len(t[n].children)]

parent(t, n) == t[n].parent

\* ------------------------------------------------------------------ ranges
\* new vscode.Range(a, b): the constructor orders its two positions
Range(a, b) == IF a <= b THEN [start |-> a, end |-> b] ELSE [start |-> b, end |-> a]

\* range.isEqual(other), selection.isEqual(range)
isEqual(r, q) == r.start = q.start /\ r.end = q.end

\* range.isEmpty
isEmpty(r) == r.start = r.end

\* range.contains(other)
contains(r, q) == r.start <= q.start /\ q.end <= r.end

\* nodeToRange(node)
nodeToRange(t, n) == Range(t[n].startPosition, t[n].endPosition)

\* ------------------------------------------------- tree-sitter node lookup
\* pointToPosition / positionToPoint: row 0 throughout, the column is kept
pointToPosition(point) == point

positionToPoint(position) == position

\* The descent of rootNode.namedDescendantForPosition(point) (tree-sitter's
\* ts_node_named_descendant_for_point_range with an empty range): from node n
\* go into the first child that ends after the point, unless that child
\* starts after the point; remember the last named node passed.
RECURSIVE descendantForPoint(_, _, _, _)
descendantForPoint(t, n, point, lastNamed) ==
    LET ch == t[n].children
        reach == {i \in 1..Len(ch) : t[ch[i]].endPosition > point}
    IN  IF reach = {} THEN lastNamed
        ELSE LET c == ch[CHOOSE i \in reach : \A j \in reach : i <= j]
             IN  IF point < t[c].startPosition THEN lastNamed
                 ELSE descendantForPoint(t, c, point,
                                         IF t[c].named THEN c ELSE lastNamed)

namedDescendantForPosition(t, point) ==
    descendantForPoint(t, rootNode, point, rootNode)

\* ------------------------------------------------------ selectionUtils.ts
\* the Pair type; the delimiter texts are read by no command and are left out
Pair(node, openRange, closeRange, contentRange) ==
    [open |-> [range |-> openRange], close |-> [range |-> closeRange],
     contentRange |-> contentRange, node |-> node]

\* Pair | undefined: the undefined result
NoPair == Pair(Null, Range(0, 0), Range(0, 0), Range(0, 0))

getPairFromDelimiters(t, node, openDelimiter, closeDelimiter) ==
    IF openDelimiter = Null \/ closeDelimiter = Null THEN NoPair
    ELSE LET openRange == nodeToRange(t, openDelimiter)
             closeRange == nodeToRange(t, closeDelimiter)
             contentRange == Range(openRange.end, closeRange.start)
         IN  Pair(node, openRange, closeRange, contentRange)

\* StandardPairTypes with the case label "array" left out
StandardPairTypesMissingLabel ==
    {"parenthesized_expression", "object", "object_pattern", "string",
     "named_imports", "jsx_expression", "arguments", "formal_parameters",
     "statement_block"}

\* StandardPairTypes with one case label too many
StandardPairTypesExtraLabel ==
    {"parenthesized_expression", "object", "object_pattern", "array", "string",
     "named_imports", "jsx_expression", "arguments", "formal_parameters",
     "statement_block", "expression_statement"}

\* the case labels of the switch that return getPairFromDelimiters directly
StandardPairTypes ==
    {"parenthesized_expression", "object", "object_pattern", "array", "string",
     "named_imports", "jsx_expression", "arguments", "formal_parameters",
     "statement_block"}

\* findContainingPair() accepting every jsx_element, whatever its first and
\* last child are
RECURSIVE findContainingPairJsxUnchecked(_, _)
findContainingPairJsxUnchecked(t, startNode) ==
    IF startNode = Null THEN NoPair
    ELSE LET node == startNode
             open == firstChild(t, node)
             close == lastChild(t, node)
         IN  IF t[node].type \in StandardPairTypes
             THEN getPairFromDelimiters(t, node, open, close)
             ELSE IF t[node].type = "jsx_element"
             THEN getPairFromDelimiters(t, node, open, close)
             ELSE findContainingPairJsxUnchecked(t, parent(t, node))

RECURSIVE findContainingPair(_, _)
findContainingPair(t, startNode) ==
    IF startNode = Null THEN NoPair
    ELSE LET node == startNode
             open == firstChild(t, node)
             close == lastChild(t, node)
         IN  IF t[node].type \in StandardPairTypes
             THEN getPairFromDelimiters(t, node, open, close)
             ELSE IF /\ t[node].type = "jsx_element"
                     /\ open # Null
                     /\ t[open].type = "jsx_opening_element"
                     /\ close # Null
                     /\ t[close].type = "jsx_closing_element"
             THEN getPairFromDelimiters(t, node, open, close)
             ELSE findContainingPair(t, parent(t, node))

\* ------------------------------------------------------------ BlockMode.ts
\* new vscode.Selection(anchor, active), kept as its range
Selection(anchor, active) == Range(anchor, active)

\* selectInside() without the early return for `!innerPair`: the undefined
\* pair is compared and selected like any other
selectInsideNoPairGuard(fileTree, activeEd, sels) ==
    IF fileTree = Undefined \/ activeEd = Undefined THEN sels
    ELSE LET t == Tree(fileTree)
             selection == sels[1]
             node == namedDescendantForPosition(t, positionToPoint(selection.start))
             innerPair == findContainingPair(t, node)
             innerPairFullRange ==
                 Range(innerPair.open.range.start, innerPair.close.range.end)
         IN  IF isEqual(selection, innerPair.contentRange)
             THEN << Selection(innerPairFullRange.start, innerPairFullRange.end) >>
             ELSE IF isEqual(selection, innerPairFullRange)
             THEN LET outerPair ==
                          IF innerPair = NoPair THEN NoPair
                          ELSE findContainingPair(t, parent(t, innerPair.node))
                  IN  IF outerPair # NoPair
                      THEN << Selection(outerPair.contentRange.start,
                                        outerPair.contentRange.end) >>
                      ELSE sels
             ELSE << Selection(innerPair.contentRange.start,
                               innerPair.contentRange.end) >>

\* selectInside(): the editor's selections after the command.  Assigning
\* activeEditor.selection replaces all selections by the one assigned.
selectInside(fileTree, activeEd, sels) ==
    IF fileTree = Undefined \/ activeEd = Undefined THEN sels
    ELSE LET t == Tree(fileTree)
             selection == sels[1]
             node == namedDescendantForPosition(t, positionToPoint(selection.start))
             innerPair == findContainingPair(t, node)
         IN  IF innerPair = NoPair THEN sels
             ELSE LET innerPairFullRange ==
                          Range(innerPair.open.range.start, innerPair.close.range.end)
                  IN  IF isEqual(selection, innerPair.contentRange)
                      THEN << Selection(innerPairFullRange.start, innerPairFullRange.end) >>
                      ELSE IF isEqual(selection, innerPairFullRange)
                      THEN LET outerPair ==
                                   findContainingPair(t, parent(t, innerPair.node))
                           IN  IF outerPair # NoPair
                               THEN << Selection(outerPair.contentRange.start,
                                                 outerPair.contentRange.end) >>
                               ELSE sels
                      ELSE << Selection(innerPair.contentRange.start,
                                        innerPair.contentRange.end) >>

\* selectSurroundingPair() starting the search at the parent of the node
\* under the cursor
selectSurroundingPairFromParent(fileTree, activeEd, sels) ==
    IF fileTree = Undefined \/ activeEd = Undefined THEN sels
    ELSE LET t == Tree(fileTree)
             node == namedDescendantForPosition(t, positionToPoint(sels[1].start))
             pair == findContainingPair(t, parent(t, node))
         IN  IF pair # NoPair
             THEN << Selection(pair.open.range.start, pair.open.range.end),
                     Selection(pair.close.range.start, pair.close.range.end) >>
             ELSE sels

\* selectSurroundingPair(): the editor's selections after the command
selectSurroundingPair(fileTree, activeEd, sels) ==
    IF fileTree = Undefined \/ activeEd = Undefined THEN sels
    ELSE LET t == Tree(fileTree)
             node == namedDescendantForPosition(t, positionToPoint(sels[1].start))
             pair == findContainingPair(t, node)
         IN  IF pair # NoPair
             THEN << Selection(pair.open.range.start, pair.open.range.end),
                     Selection(pair.close.range.start, pair.close.range.end) >>
             ELSE sels

\* ------------------------------------------ FileTree.ts and Selection.ts
\* The block structure a FileTree gives its callers: the blocks are the
\* statements of the tree, and a Selection is a run of sibling blocks, or the
\* single node that is the parent of a run.

\* the node kinds that are blocks
BlockKinds == {"expression_statement", "statement_block"}

isBlock(t, n) == t[n].type \in BlockKinds

\* a Selection from its first to its last node
BlockSelection(first, last) == [first |-> first, last |-> last]

\* Selection | undefined: the undefined result
NoSelection == BlockSelection(Null, Null)

\* selection.firstNode()
firstNode(selection) == selection.first

\* selection.toVscodeSelection()
toVscodeSelection(t, selection) ==
    Selection(t[selection.first].startPosition, t[selection.last].endPosition)

\* the blocks that are siblings of node n, in source order
siblingBlocks(t, n) ==
    IF parent(t, n) = Null THEN << n >>
    ELSE SelectSeq(t[parent(t, n)].children, LAMBDA c : isBlock(t, c))

indexOf(seq, x) == CHOOSE i \in 1..Len(seq) : seq[i] = x

\* the runs of sibling blocks of tree t
BlockRuns(t) ==
    LET blocks == {n \in Nodes(t) : isBlock(t, n)}
    IN  {r \in [first : blocks, last : blocks] :
            /\ parent(t, r.first) = parent(t, r.last)
            /\ t[r.first].startPosition <= t[r.last].startPosition}

\* fileTree.resolveVscodeSelection(vscodeSelection): the run whose first
\* block starts and whose last block ends where the range does
resolveVscodeSelection(t, vscodeSelection) ==
    LET runs == {r \in BlockRuns(t) : isEqual(toVscodeSelection(t, r), vscodeSelection)}
    IN  IF runs = {} THEN NoSelection ELSE CHOOSE r \in runs : TRUE

\* fileTree.selectBlock(cursorIndex): the innermost block at the offset
selectBlockAt(t, cursorIndex) ==
    LET at == {n \in Nodes(t) : /\ isBlock(t, n)
                                /\ t[n].startPosition <= cursorIndex
                                /\ cursorIndex < t[n].endPosition}
    IN  IF at = {} THEN NoSelection
        ELSE LET n == CHOOSE m \in at : \A k \in at :
                          t[m].endPosition - t[m].startPosition
                              <= t[k].endPosition - t[k].startPosition
             IN  BlockSelection(n, n)

\* selection.getParent(blocks): the parent node of the run, the root included
getParent(t, selection) ==
    IF parent(t, selection.first) = Null THEN NoSelection
    ELSE BlockSelection(parent(t, selection.first), parent(t, selection.first))

\* selection.getPrevious(blocks)
getPrevious(t, selection) ==
    LET sibs == siblingBlocks(t, selection.first)
        i == indexOf(sibs, selection.first)
    IN  IF i = 1 THEN NoSelection ELSE BlockSelection(sibs[i - 1], sibs[i - 1])

\* selection.getNext(blocks)
getNext(t, selection) ==
    LET sibs == siblingBlocks(t, selection.last)
        i == indexOf(sibs, selection.last)
    IN  IF i = Len(sibs) THEN NoSelection ELSE BlockSelection(sibs[i + 1], sibs[i + 1])

\* selection.update(direction, blocks): the Selection afterwards
update(t, selection, direction) ==
    LET children == SelectSeq(t[selection.first].children, LAMBDA c : isBlock(t, c))
    IN  CASE direction = "parent" ->
                 IF getParent(t, selection) # NoSelection
                 THEN getParent(t, selection) ELSE selection
          [] direction = "child" ->
                 IF selection.first = selection.last /\ children # <<>>
                 THEN BlockSelection(children[1], children[Len(children)])
                 ELSE selection
          [] direction = "add-previous" ->
                 IF getPrevious(t, selection) # NoSelection
                 THEN BlockSelection(getPrevious(t, selection).first, selection.last)
                 ELSE selection
          [] direction = "add-next" ->
                 IF getNext(t, selection) # NoSelection
                 THEN BlockSelection(selection.first, getNext(t, selection).last)
                 ELSE selection

\* the result of fileTree.moveSelection: status "ok" with the range of the
\* moved text, or status "err" with the reason
MoveResult(status, range, reason) == [status |-> status, range |-> range, reason |-> reason]

\* fileTree.moveSelection(selection, direction): the run and the adjacent
\* block change places; fails without an adjacent block, or when the text
\* between them cannot be divided (ambiguousTrivia)
fileTreeMoveSelection(t, selection, direction, ambiguousTrivia) ==
    LET range == toVscodeSelection(t, selection)
        length == range.end - range.start
        other == IF direction = "swap-previous" THEN getPrevious(t, selection)
                 ELSE getNext(t, selection)
    IN  IF other = NoSelection THEN MoveResult("err", range, "NoAdjacentSibling")
        ELSE IF ambiguousTrivia THEN MoveResult("err", range, "AmbiguousTrivia")
        ELSE IF direction = "swap-previous"
        THEN MoveResult("ok", Selection(toVscodeSelection(t, other).start,
                                        toVscodeSelection(t, other).start + length), "")
        ELSE MoveResult("ok", Selection(toVscodeSelection(t, other).end - length,
                                        toVscodeSelection(t, other).end), "")

\* --------------------------------------------- BlockMode.ts, block commands
\* no new position (let newPosition; left undefined)
NoPosition == -1

\* selectBlock(): the editor's selections after the command.  The offset is
\* that of selection.active, the end of a selection made from start to end.
selectBlock(fileTree, activeEd, sels) ==
    IF activeEd = Undefined \/ fileTree = Undefined THEN sels
    ELSE LET t == Tree(fileTree)
             cursorIndex == sels[1].end
             selection == selectBlockAt(t, cursorIndex)
         IN  IF selection # NoSelection
             THEN << toVscodeSelection(t, selection) >>
             ELSE sels

\* updateSelection() selecting the block at the cursor when the editor's
\* selection does not resolve
updateSelectionUnresolvedSelectsBlock(fileTree, activeEd, sels, direction) ==
    IF activeEd = Undefined \/ fileTree = Undefined THEN sels
    ELSE LET t == Tree(fileTree)
             selection == resolveVscodeSelection(t, sels[1])
         IN  IF selection # NoSelection
             THEN << toVscodeSelection(t, update(t, selection, direction)) >>
             ELSE selectBlock(fileTree, activeEd, sels)

\* updateSelection(direction): the editor's selections after the command
updateSelection(fileTree, activeEd, sels, direction) ==
    IF activeEd = Undefined \/ fileTree = Undefined THEN sels
    ELSE LET t == Tree(fileTree)
             selection == resolveVscodeSelection(t, sels[1])
         IN  IF selection # NoSelection
             THEN << toVscodeSelection(t, update(t, selection, direction)) >>
             ELSE sels

\* what moveSelection(direction) leaves: the editor's selections, the reason
\* given to the logger ("" when nothing is logged), and whether
\* fileTree.moveSelection edited the text
MoveOutcome(sels, logged, edited) == [selections |-> sels, logged |-> logged, edited |-> edited]

\* moveSelection() with case "err" reporting nothing to the logger
moveSelectionSilentErr(fileTree, activeEd, sels, direction, ambiguousTrivia) ==
    IF fileTree = Undefined \/ activeEd = Undefined THEN MoveOutcome(sels, "", FALSE)
    ELSE LET t == Tree(fileTree)
             selection == resolveVscodeSelection(t, sels[1])
         IN  IF selection = NoSelection THEN MoveOutcome(sels, "", FALSE)
             ELSE LET result == fileTreeMoveSelection(t, selection, direction,
                                                      ambiguousTrivia)
                  IN  IF result.status = "ok"
                      THEN MoveOutcome(<< result.range >>, "", TRUE)
                      ELSE MoveOutcome(sels, "", FALSE)

moveSelection(fileTree, activeEd, sels, direction, ambiguousTrivia) ==
    IF fileTree = Undefined \/ activeEd = Undefined THEN MoveOutcome(sels, "", FALSE)
    ELSE LET t == Tree(fileTree)
             selection == resolveVscodeSelection(t, sels[1])
         IN  IF selection = NoSelection THEN MoveOutcome(sels, "", FALSE)
             ELSE LET result == fileTreeMoveSelection(t, selection, direction,
                                                      ambiguousTrivia)
                  IN  IF result.status = "ok"
                      THEN MoveOutcome(<< result.range >>, "", TRUE)
                      ELSE MoveOutcome(sels, result.reason, FALSE)

\* navigate() with "down" going to the start of the parent, as "up" does
navigateDownToStart(fileTree, activeEd, sels, direction) ==
    IF activeEd = Undefined \/ fileTree = Undefined THEN sels
    ELSE LET t == Tree(fileTree)
             selection == resolveVscodeSelection(t, sels[1])
             parentSel == IF selection = NoSelection THEN NoSelection
                          ELSE getParent(t, selection)
             previous == IF selection = NoSelection THEN NoSelection
                         ELSE getPrevious(t, selection)
             next == IF selection = NoSelection THEN NoSelection
                     ELSE getNext(t, selection)
             newPosition ==
                 CASE direction \in {"up", "down"} ->
                        IF parentSel # NoSelection
                        THEN toVscodeSelection(t, parentSel).start ELSE NoPosition
                   [] direction = "left" ->
                        IF previous # NoSelection
                        THEN toVscodeSelection(t, previous).start ELSE NoPosition
                   [] direction = "right" ->
                        IF next # NoSelection
                        THEN toVscodeSelection(t, next).start ELSE NoPosition
         IN  IF newPosition # NoPosition
             THEN << Selection(newPosition, newPosition) >>
             ELSE sels

\* navigate(direction): the editor's selections after the command
navigate(fileTree, activeEd, sels, direction) ==
    IF activeEd = Undefined \/ fileTree = Undefined THEN sels
    ELSE LET t == Tree(fileTree)
             selection == resolveVscodeSelection(t, sels[1])
             parentSel == IF selection = NoSelection THEN NoSelection
                          ELSE getParent(t, selection)
             previous == IF selection = NoSelection THEN NoSelection
                         ELSE getPrevious(t, selection)
             next == IF selection = NoSelection THEN NoSelection
                     ELSE getNext(t, selection)
             newPosition ==
                 CASE direction = "up" ->
                        IF parentSel # NoSelection
                        THEN toVscodeSelection(t, parentSel).start ELSE NoPosition
                   [] direction = "down" ->
                        IF parentSel # NoSelection
                        THEN toVscodeSelection(t, parentSel).end ELSE NoPosition
                   [] direction = "left" ->
                        IF previous # NoSelection
                        THEN toVscodeSelection(t, previous).start ELSE NoPosition
                   [] direction = "right" ->
                        IF next # NoSelection
                        THEN toVscodeSelection(t, next).start ELSE NoPosition
         IN  IF newPosition # NoPosition
             THEN << Selection(newPosition, newPosition) >>
             ELSE sels

\* the ranges set with editor.setDecorations(decorations.sibling, ..) and
\* (decorations.parent, ..) on an editor; no editor when none are set
Highlights(editor, sibling, parentRanges) ==
    IF sibling = {} /\ parentRanges = {}
    THEN [editor |-> Undefined, sibling |-> {}, parent |-> {}]
    ELSE [editor |-> editor, sibling |-> sibling, parent |-> parentRanges]

NoHighlights == Highlights(Undefined, {}, {})

\* resetDecorations(): both decoration types are disposed, which removes
\* their ranges from every editor
resetDecorations(hl) == NoHighlights

\* updateTargetHighlights() keeping a parent that is the entire file
updateTargetHighlightsWholeFile(hl, editor, vscodeSelection, fileTree, blockMode, colors) ==
    IF ~blockMode \/ ~colors THEN hl
    ELSE IF fileTree = Undefined \/ editor # fileTree THEN hl
    ELSE LET t == Tree(fileTree)
             selection == resolveVscodeSelection(t, vscodeSelection)
         IN  IF selection = NoSelection THEN Highlights(editor, {}, {})
             ELSE LET parentSel == getParent(t, selection)
                      previous == getPrevious(t, selection)
                      next == getNext(t, selection)
                      targets ==
                          (IF previous # NoSelection
                           THEN {toVscodeSelection(t, previous)} ELSE {})
                          \cup (IF next # NoSelection
                                THEN {toVscodeSelection(t, next)} ELSE {})
                      forceTargets ==
                          IF (next = NoSelection \/ previous = NoSelection)
                              /\ parentSel # NoSelection
                          THEN {toVscodeSelection(t, parentSel)} ELSE {}
                  IN  Highlights(editor, targets, forceTargets)

\* updateTargetHighlights(editor, vscodeSelection): the highlights afterwards
updateTargetHighlights(hl, editor, vscodeSelection, fileTree, blockMode, colors) ==
    IF ~blockMode \/ ~colors THEN hl
    ELSE IF fileTree = Undefined \/ editor # fileTree THEN hl
    ELSE LET t == Tree(fileTree)
             selection == resolveVscodeSelection(t, vscodeSelection)
         IN  IF selection = NoSelection THEN Highlights(editor, {}, {})
             ELSE LET parent0 == getParent(t, selection)
                      parentSel == IF /\ parent0 # NoSelection
                                      /\ parent(t, firstNode(parent0)) = Null
                                   THEN NoSelection ELSE parent0
                      previous == getPrevious(t, selection)
                      next == getNext(t, selection)
                      targets ==
                          (IF previous # NoSelection
                           THEN {toVscodeSelection(t, previous)} ELSE {})
                          \cup (IF next # NoSelection
                                THEN {toVscodeSelection(t, next)} ELSE {})
                      forceTargets ==
                          IF (next = NoSelection \/ previous = NoSelection)
                              /\ parentSel # NoSelection
                          THEN {toVscodeSelection(t, parentSel)} ELSE {}
                  IN  Highlights(editor, targets, forceTargets)

\* ------------------------------------------------------- parsers migration
\* File names are sequences of characters; a parsers directory is given by
\* whether it exists and its entries, the original extension also by whether
\* it is installed.
DirEntries == { << ".", "g" >>, << "r", "s" >>, << "p", "y" >> }

Dir(exists, entries) ==
    [exists |-> exists, entries |-> IF exists THEN entries ELSE {}]

OriginalExt(installed, exists, entries) ==
    [installed |-> installed, exists |-> installed /\ exists,
     entries |-> IF installed /\ exists THEN entries ELSE {}]

\* context.globalState.get(MIGRATION_STATE_KEY) before anything was stored
NoDecision == "undefined"

Decisions == {NoDecision, "later", "never", "migrated"}

\* f.startsWith(prefix) for a prefix of one character
startsWith(f, prefix) == Len(f) >= 1 /\ f[1] = prefix

\* fs.readdirSync(dir).filter((f) => !f.startsWith("."))
readdirNotHidden(entries) == { f \in entries : ~startsWith(f, ".") }

\* the prompt's buttons, and the prompt dismissed
Dismissed == "dismissed"

PromptSelections == {"Migrate", "Never", "Decide Later", Dismissed}

\* shouldOfferMigration up to its await: TRUE when it goes on to
\* showInformationMessage; throws: a file system call throws, which the
\* catch turns into "skip"
promptDueDecisionIgnored(decision, current, original, throws) ==
    /\ ~throws
    /\ readdirNotHidden(current.entries) = {}
    /\ original.installed
    /\ original.exists
    /\ readdirNotHidden(original.entries) # {}

promptDue(decision, current, original, throws) ==
    /\ ~(decision = "migrated" \/ decision = "never")
    /\ ~throws
    /\ ~(current.exists /\ readdirNotHidden(current.entries) # {})
    /\ original.installed
    /\ original.exists
    /\ readdirNotHidden(original.entries) # {}

\* shouldOfferMigration: what it returns when the user answers the prompt,
\* if it is shown, with selection
shouldOfferMigration(decision, current, original, throws, selection) ==
    IF ~promptDue(decision, current, original, throws) THEN "skip"
    ELSE IF selection = "Migrate" THEN "migrate"
    ELSE IF selection = "Never" THEN "never"
    ELSE IF selection = "Decide Later" THEN "later"
    ELSE "skip"

\* performMigration returns before copying anything when the original
\* extension or its parsers directory is gone
performMigrationStarts(original) == original.installed /\ original.exists

\* ------------------------------------------------------------------- state
VARIABLES
    activeEditor,    \* vscode.window.activeTextEditor: its document, or Undefined
    activeFileTree,  \* codeBlocks.activeFileTree: the document parsed, or Undefined
    selections,      \* activeEditor.selections, primary first; <<>> without editor
    lastCmd,         \* history: the operation that led to this state
    before,          \* history: the selections before that operation
    origin,          \* history: the column of the single empty cursor last placed
    calls,           \* history: selectInside calls since that cursor was placed
    found,           \* history: start node and result of the last findContainingPair probe
    active,          \* codeBlocks.active: the extension reacts to editor changes
    blockModeActive, \* BlockMode.blockModeActive
    pending,         \* getEditorFileTree calls awaited by a listener, oldest first
    colorsEnabled,   \* colorConfig.get().enabled
    highlights,      \* the ranges of decorations.sibling and decorations.parent
    latest,          \* history: the getEditorFileTree call made last, its result, and
                     \* whether a call for another editor was awaited when it was made
    arg,             \* history: the direction given to the last block command
    logged,          \* history: the reason the last moveSelection gave the logger
    snapshotUse,     \* history: "fresh" until the active FileTree produced a text
                     \* edit, then "edited", and "reused" once a command read it
                     \* after that
    decision,        \* context.globalState.get(MIGRATION_STATE_KEY)
    currentParsersDir, \* the parsers directory of this extension
    originalExt,     \* the original extension and its parsers directory
    migration,       \* where the migration of this activation stands, and the
                     \* entries still to copy
    activation       \* history: the activations so far, what the last one read
                     \* and what it did

\* the state of the extension's life cycle
extVars == << active, blockModeActive, pending, colorsEnabled, highlights, latest,
             arg, logged, snapshotUse >>

\* the state of the parsers migration
migVars == << decision, currentParsersDir, originalExt, migration, activation >>

\* the state of the editor and of the pair commands
pairVars == << activeEditor, activeFileTree, selections, lastCmd, before, origin, calls,
              found >>

vars == << activeEditor, activeFileTree, selections, lastCmd, before, origin, calls, found,
           extVars, migVars >>

NoOrigin == -1

NoCall == [tree |-> Undefined, start |-> Null, pair |-> NoPair]

\* the column of a single empty cursor, NoOrigin for any other selections
OriginOf(sels) ==
    IF Len(sels) = 1 /\ isEmpty(sels[1]) THEN sels[1].start ELSE NoOrigin

\* no getEditorFileTree call was made yet
NoRequest == [editor |-> Undefined, result |-> Undefined, raced |-> FALSE]

\* export const active = state(true); export const blockModeActive =
\* state(false); no parse is awaited
ExtIdle ==
    /\ active = TRUE
    /\ blockModeActive = FALSE
    /\ pending = <<>>
    /\ colorsEnabled = TRUE
    /\ highlights = NoHighlights
    /\ latest = NoRequest
    /\ arg = ""
    /\ logged = ""
    /\ snapshotUse = "fresh"

NoActivation ==
    [count |-> 0, decisionAtStart |-> NoDecision, current |-> Dir(FALSE, {}),
     original |-> OriginalExt(FALSE, FALSE, {}), throws |-> FALSE,
     prompted |-> FALSE, copied |-> {}, outcome |-> "none", previous |-> "none"]

\* the extension was activated on a machine without the original extension:
\* shouldOfferMigration returned "skip" and nothing was stored
MigrationSkipped ==
    /\ decision = NoDecision
    /\ currentParsersDir = Dir(FALSE, {})
    /\ originalExt = OriginalExt(FALSE, FALSE, {})
    /\ migration = [pc |-> "on", remaining |-> <<>>]
    /\ activation = [NoActivation EXCEPT !.count = 1, !.outcome = "skip"]

\* vscode.window.onDidChangeTextEditorSelection fires for the active editor
\* when a command or the user changed its selections
OnDidChangeTextEditorSelection ==
    highlights' = IF selections' # selections /\ activeEditor # Undefined
                  THEN updateTargetHighlights(highlights, activeEditor, selections'[1],
                                              activeFileTree, blockModeActive,
                                              colorsEnabled)
                  ELSE highlights

\* a command reads the active FileTree; edited: it made the tree edit the text
ServeRequest(edited) ==
    snapshotUse' = IF activeFileTree = Undefined \/ activeEditor = Undefined
                   THEN snapshotUse
                   ELSE IF snapshotUse # "fresh" THEN "reused"
                   ELSE IF edited THEN "edited" ELSE "fresh"

Init ==
    /\ activeEditor = Undefined
    /\ activeFileTree = Undefined
    /\ selections = <<>>
    /\ lastCmd = "activate"
    /\ before = <<>>
    /\ origin = NoOrigin
    /\ calls = 0
    /\ found = NoCall
    /\ ExtIdle
    /\ MigrationSkipped

\* An editor on document d becomes active and its parse has completed
\* (what the tests' openDocument awaits): the active FileTree is d's, or
\* undefined when no parser is installed for d's language.
OpenDocument(d, hasParser) ==
    /\ activeEditor' = d
    /\ activeFileTree' = IF hasParser THEN d ELSE Undefined
    /\ selections' = << Selection(0, 0) >>
    /\ lastCmd' = "openDocument"
    /\ before' = <<>>
    /\ origin' = 0
    /\ calls' = 0
    /\ UNCHANGED found
    /\ UNCHANGED extVars
    /\ UNCHANGED migVars

\* The last editor is closed: no active editor, getEditorFileTree gives undefined
CloseEditor ==
    /\ activeEditor # Undefined
    /\ activeEditor' = Undefined
    /\ activeFileTree' = Undefined
    /\ selections' = <<>>
    /\ lastCmd' = "closeEditor"
    /\ before' = <<>>
    /\ origin' = NoOrigin
    /\ calls' = 0
    /\ UNCHANGED found
    /\ UNCHANGED extVars
    /\ UNCHANGED migVars

\* The user (or a test: activeEditor.selection = new vscode.Selection(..))
\* replaces the selections by one selection from a to b
SetSelection(a, b) ==
    /\ activeEditor # Undefined
    /\ selections' = << Selection(a, b) >>
    /\ lastCmd' = "setSelection"
    /\ before' = <<>>
    /\ origin' = OriginOf(selections')
    /\ calls' = 0
    /\ UNCHANGED << activeEditor, activeFileTree, found >>
    /\ UNCHANGED extVars
    /\ UNCHANGED migVars

\* The user adds one more empty cursor at column p, apart from the others
AddCursor(p) ==
    /\ activeEditor # Undefined
    /\ Len(selections) < MaxCursors
    /\ \A i \in 1..Len(selections) : p < selections[i].start \/ selections[i].end < p
    /\ selections' = Append(selections, Selection(p, p))
    /\ lastCmd' = "addCursor"
    /\ before' = <<>>
    /\ origin' = NoOrigin
    /\ calls' = 0
    /\ UNCHANGED << activeEditor, activeFileTree, found >>
    /\ UNCHANGED extVars
    /\ UNCHANGED migVars

\* command codeBlocks.selectInside
SelectInside ==
    /\ origin # NoOrigin => calls < MaxCalls
    /\ selections' = selectInside(activeFileTree, activeEditor, selections)
    /\ lastCmd' = "selectInside"
    /\ before' = selections
    /\ calls' = IF origin # NoOrigin THEN calls + 1 ELSE calls
    /\ UNCHANGED << activeEditor, activeFileTree, origin, found >>
    /\ OnDidChangeTextEditorSelection
    /\ ServeRequest(FALSE)
    /\ arg' = ""
    /\ logged' = ""
    /\ UNCHANGED << active, blockModeActive, pending, colorsEnabled, latest >>
    /\ UNCHANGED migVars

\* command codeBlocks.selectSurroundingPair
SelectSurroundingPair ==
    /\ selections' = selectSurroundingPair(activeFileTree, activeEditor, selections)
    /\ lastCmd' = "selectSurroundingPair"
    /\ before' = selections
    /\ origin' = NoOrigin
    /\ calls' = 0
    /\ UNCHANGED << activeEditor, activeFileTree, found >>
    /\ OnDidChangeTextEditorSelection
    /\ ServeRequest(FALSE)
    /\ arg' = ""
    /\ logged' = ""
    /\ UNCHANGED << active, blockModeActive, pending, colorsEnabled, latest >>
    /\ UNCHANGED migVars

Next ==
    \/ \E d \in Docs, hasParser \in BOOLEAN : OpenDocument(d, hasParser)
    \/ CloseEditor
    \/ \E a, b \in Positions(activeEditor) : a <= b /\ SetSelection(a, b)
    \/ \E p \in Positions(activeEditor) : AddCursor(p)
    \/ SelectInside
    \/ SelectSurroundingPair

Spec == Init /\ [][Next]_vars

\* ------------------------------------------ findContainingPair on its own
\* A document is open and parsed; findContainingPair is then applied to any
\* node of its tree, or to no node.
InitPair ==
    /\ \E d \in Docs :
          /\ activeEditor = d
          /\ activeFileTree = d
    /\ selections = << Selection(0, 0) >>
    /\ lastCmd = "openDocument"
    /\ before = <<>>
    /\ origin = 0
    /\ calls = 0
    /\ found = NoCall
    /\ ExtIdle
    /\ MigrationSkipped

FindContainingPair(startNode) ==
    /\ found' = [tree |-> activeFileTree, start |-> startNode,
                 pair |-> findContainingPair(Tree(activeFileTree), startNode)]
    /\ lastCmd' = "findContainingPair"
    /\ UNCHANGED << activeEditor, activeFileTree, selections, before, origin, calls >>
    /\ UNCHANGED extVars
    /\ UNCHANGED migVars

NextPair ==
    \E startNode \in Nodes(Tree(activeFileTree)) \cup {Null} :
        FindContainingPair(startNode)

SpecPair == InitPair /\ [][NextPair]_vars

\* ------------------------------------------------- vocabulary of the claims
\* the recognized standard pair kinds, as the claims list them
ClaimStandardKinds ==
    {"parenthesized_expression", "object", "object_pattern", "array", "string",
     "named_imports", "jsx_expression", "arguments", "formal_parameters",
     "statement_block"}

\* a jsx_element between a jsx_opening_element and a jsx_closing_element
ClaimAcceptedJsx(t, n) ==
    /\ t[n].type = "jsx_element"
    /\ t[n].children # <<>>
    /\ t[t[n].children[1]].type = "jsx_opening_element"
    /\ t[t[n].children[Len(t[n].children)]].type = "jsx_closing_element"

\* node n is of a recognized pair kind
ClaimPairKind(t, n) == t[n].type \in ClaimStandardKinds \/ ClaimAcceptedJsx(t, n)

\* the chain n, parent, grandparent, ... up to the root (empty for no node)
RECURSIVE ClaimChain(_, _)
ClaimChain(t, n) == IF n = Null THEN <<>> ELSE << n >> \o ClaimChain(t, t[n].parent)

\* the first node of a chain that is of a recognized pair kind, Null if none
ClaimInnermostKind(t, chain) ==
    LET hits == {i \in 1..Len(chain) : ClaimPairKind(t, chain[i])}
    IN  IF hits = {} THEN Null
        ELSE chain[CHOOSE i \in hits : \A j \in hits : i <= j]

\* the ranges of the first and of the last child of node m
ClaimOpenOf(t, m) ==
    [start |-> t[t[m].children[1]].startPosition,
     end |-> t[t[m].children[1]].endPosition]

ClaimCloseOf(t, m) ==
    [start |-> t[t[m].children[Len(t[m].children)]].startPosition,
     end |-> t[t[m].children[Len(t[m].children)]].endPosition]

\* a probe of findContainingPair has just returned
Probed == lastCmd = "findContainingPair"

C5_NoKindYieldsNothing ==
    Probed =>
        LET t == Tree(found.tree)
        IN  (\A i \in 1..Len(ClaimChain(t, found.start)) :
                 ~ClaimPairKind(t, ClaimChain(t, found.start)[i]))
            => found.pair = NoPair

\* C5 witness: a probe from a real node with no pair kind above it (the
\* literal of `42`) has returned nothing
C5_Witness ==
    /\ Probed
    /\ found.start # Null
    /\ Tree(found.tree)[found.start].type = "number"
    /\ ClaimInnermostKind(Tree(found.tree), ClaimChain(Tree(found.tree), found.start)) = Null
    /\ found.pair = NoPair

\* a node of a recognized pair kind that has its two delimiters
ClaimPair(t, n) == ClaimPairKind(t, n) /\ t[n].children # <<>>

\* the ranges of the open and of the close delimiter of pair n
ClaimOpen(t, n) == ClaimOpenOf(t, n)

ClaimClose(t, n) == ClaimCloseOf(t, n)

\* the content span (end of open to start of close) and the full span
\* (start of open to end of close) of pair n
ClaimContent(t, n) == [start |-> ClaimOpen(t, n).end, end |-> ClaimClose(t, n).start]

ClaimFull(t, n) == [start |-> ClaimOpen(t, n).start, end |-> ClaimClose(t, n).end]

\* the next node of a recognized pair kind outward of node n, Null if none
ClaimOuter(t, n) == ClaimInnermostKind(t, ClaimChain(t, t[n].parent))

\* the nodes of a recognized pair kind from node n outward, innermost first
RECURSIVE ClaimPairsFrom(_, _)
ClaimPairsFrom(t, n) ==
    IF n = Null THEN <<>> ELSE << n >> \o ClaimPairsFrom(t, ClaimOuter(t, n))

\* the nodes of a recognized pair kind that hold the character at column c
ClaimKindsAt(t, c) ==
    {n \in Nodes(t) : ClaimPairKind(t, n) /\ t[n].startPosition <= c /\ c < t[n].endPosition}

\* the innermost of the nested nodes S: every other one is above it
ClaimInnermost(t, S) ==
    CHOOSE n \in S : \A m \in S : \E i \in 1..Len(ClaimChain(t, n)) : ClaimChain(t, n)[i] = m

\* the pairs around column c, innermost first
ClaimEnclosing(t, c) ==
    IF ClaimKindsAt(t, c) = {} THEN <<>>
    ELSE ClaimPairsFrom(t, ClaimInnermost(t, ClaimKindsAt(t, c)))

\* column c lies strictly inside the content of the innermost pair around
\* it, and every pair around it has its delimiters
ClaimCursorInContent(t, c) ==
    /\ ClaimEnclosing(t, c) # <<>>
    /\ \A i \in 1..Len(ClaimEnclosing(t, c)) : ClaimPair(t, ClaimEnclosing(t, c)[i])
    /\ ClaimContent(t, ClaimEnclosing(t, c)[1]).start < c
    /\ c < ClaimContent(t, ClaimEnclosing(t, c)[1]).end

\* the active FileTree is the tree of the active editor's document
TreeOfEditor == activeEditor # Undefined /\ activeFileTree = activeEditor

\* selectInside has been called k >= 1 times in a row on a single empty
\* cursor placed at column `origin`
GrownFromCursor == lastCmd = "selectInside" /\ origin # NoOrigin /\ TreeOfEditor

\* C1: from an empty cursor strictly inside the content of the innermost
\* enclosing pair P1, with enclosing pairs P1, P2, ... such that the content
\* of each P(i+1) differs from the full span of P(i), the k-th successive
\* selectInside call leaves the single selection content(P1), full(P1),
\* content(P2), full(P2), ... for k = 1, 2, 3, 4, ...
C1_InsideOutOrder ==
    GrownFromCursor =>
        LET t == Tree(activeFileTree)
            ps == ClaimEnclosing(t, origin)
        IN  ( /\ ClaimCursorInContent(t, origin)
              /\ \A i \in 1..(Len(ps) - 1) : ClaimContent(t, ps[i + 1]) # ClaimFull(t, ps[i])
              /\ calls <= 2 * Len(ps) )
            => selections =
                   << IF calls % 2 = 1 THEN ClaimContent(t, ps[(calls + 1) \div 2])
                      ELSE ClaimFull(t, ps[calls \div 2]) >>

\* C2: when the single input selection is the full span of a pair P and
\* the next outward pair Q exists, selectInside selects Q's full span if
\* the selection equals Q's content span, and Q's content span otherwise.
C2_FullSpanStepsOutward ==
    (lastCmd = "selectInside" /\ TreeOfEditor /\ Len(before) = 1) =>
        LET t == Tree(activeFileTree)
        IN  \A P \in Nodes(t) :
                ( /\ ClaimPair(t, P)
                  /\ before[1] = ClaimFull(t, P)
                  /\ ClaimOuter(t, P) # Null
                  /\ ClaimPair(t, ClaimOuter(t, P)) )
                => selections =
                       << IF before[1] = ClaimContent(t, ClaimOuter(t, P))
                          THEN ClaimFull(t, ClaimOuter(t, P))
                          ELSE ClaimContent(t, ClaimOuter(t, P)) >>

ClaimGrown(t, r) ==
    \E P \in Nodes(t) : ClaimPair(t, P) /\ (r = ClaimContent(t, P) \/ r = ClaimFull(t, P))

\* C6: selectInside never shrinks or moves a selection away: for a single
\* non-empty input selection that lies within some pair and has been grown
\* to the content span or full span of a pair, the selection after
\* selectInside contains the input selection.
C6_NeverShrinks ==
    ( /\ lastCmd = "selectInside"
      /\ TreeOfEditor
      /\ Len(before) = 1
      /\ ~isEmpty(before[1])
      /\ ClaimGrown(Tree(activeFileTree), before[1])
      /\ \E P \in Nodes(Tree(activeFileTree)) :
             /\ ClaimPair(Tree(activeFileTree), P)
             /\ contains(ClaimFull(Tree(activeFileTree), P), before[1]) )
    => /\ Len(selections) = 1
       /\ contains(selections[1], before[1])

\* C7: repeating selectInside from a cursor inside a nesting of pairs, every
\* call made before the selection is the full span of the outermost enclosing
\* pair strictly enlarges the selection (staying within that span), and
\* every call made once it is that span leaves it unchanged.
C7_GrowsToOutermost ==
    (GrownFromCursor /\ ClaimCursorInContent(Tree(activeFileTree), origin)) =>
        LET t == Tree(activeFileTree)
            ps == ClaimEnclosing(t, origin)
            outermost == ClaimFull(t, ps[Len(ps)])
        IN  /\ Len(before) = 1
            /\ Len(selections) = 1
            /\ IF before[1] = outermost
               THEN selections[1] = outermost
               ELSE /\ contains(selections[1], before[1])
                    /\ selections[1] # before[1]
                    /\ contains(outermost, selections[1])

\* the ranges of S sorted by start, then by end
RECURSIVE SortRanges(_)
SortRanges(S) ==
    IF S = {} THEN <<>>
    ELSE LET r == CHOOSE x \in S : \A y \in S :
                      x.start < y.start \/ (x.start = y.start /\ x.end <= y.end)
         IN  << r >> \o SortRanges(S \ {r})

\* a sorted sequence of ranges with overlapping or touching ones unioned
RECURSIVE MergeSorted(_, _)
MergeSorted(sorted, acc) ==
    IF sorted = <<>> THEN acc
    ELSE LET r == Head(sorted)
         IN  IF acc # <<>> /\ r.start <= acc[Len(acc)].end
             THEN MergeSorted(Tail(sorted),
                              [acc EXCEPT ![Len(acc)].end =
                                  IF r.end > @ THEN r.end ELSE @])
             ELSE MergeSorted(Tail(sorted), Append(acc, r))

\* the Pair around the start of the cursor sel, as selectSurroundingPair finds it
ClaimPairOfCursor(sel) ==
    findContainingPair(Tree(activeFileTree),
                       namedDescendantForPosition(Tree(activeFileTree), sel.start))

\* what selectInside makes of the one cursor sel on its own
ClaimInsideOfCursor(sel) == selectInside(activeFileTree, activeEditor, << sel >>)[1]

\* C8: with several cursors, each of them inside a pair, the selections
\* after selectInside are the per-cursor results of all input cursors,
\* overlapping or touching ones merged into their union.
C8_EveryCursorMerged ==
    ( /\ lastCmd = "selectInside"
      /\ TreeOfEditor
      /\ Len(before) >= 2
      /\ \A i \in 1..Len(before) : ClaimPairOfCursor(before[i]) # NoPair )
    =>  selections =
            MergeSorted(SortRanges({ClaimInsideOfCursor(before[i]) : i \in 1..Len(before)}),
                        <<>>)

\* C9: with several cursors, each of them inside a pair, the selections
\* after selectSurroundingPair are the open and close delimiter ranges of
\* the containing pair of every input cursor, in sorted order, each range
\* once.
C9_EveryCursorDelimiters ==
    ( /\ lastCmd = "selectSurroundingPair"
      /\ TreeOfEditor
      /\ Len(before) >= 2
      /\ \A i \in 1..Len(before) : ClaimPairOfCursor(before[i]) # NoPair )
    => selections =
           SortRanges(UNION {{ClaimPairOfCursor(before[i]).open.range,
                              ClaimPairOfCursor(before[i]).close.range} :
                             i \in 1..Len(before)})

\* one of the two pair commands has just run
PairCommandRan == lastCmd \in {"selectInside", "selectSurroundingPair"}

\* findContainingPair finds no pair for the node at the primary selection's
\* start (of the selections before the command)
ClaimNoPairAtStart ==
    /\ activeFileTree # Undefined
    /\ before # <<>>
    /\ ClaimPairOfCursor(before[1]) = NoPair

\* C10: when there is no active FileTree, or no active editor, or no pair
\* is found for the node at the selection start, selectInside and
\* selectSurroundingPair leave the editor's selections exactly as they were.
C10_NoPairNoChange ==
    ( /\ PairCommandRan
      /\ \/ activeFileTree = Undefined
         \/ activeEditor = Undefined
         \/ ClaimNoPairAtStart )
    => selections = before

\* C10 witness: selectInside has run on two cursors in a parsed document
\* that has no pair at the primary cursor, and both cursors are still there
C10_Witness ==
    /\ lastCmd = "selectInside"
    /\ TreeOfEditor
    /\ ClaimNoPairAtStart
    /\ Len(before) = 2
    /\ selections = before

\* ------------------------------------------- the extension's life cycle
\* Editors come and go while the parses started for them are still awaited.
\* A getEditorFileTree call awaits getLanguage and FileTree.new, so the
\* listener that made it resumes at a later time, after any listener or
\* command that ran in between, and calls of different editors complete in
\* any order.

\* most getEditorFileTree calls awaited at one time
MaxPending == 2

\* the documents open in editor tabs: `x={ f:(ba) }` and `{a;b;c;}d;`
OpenDocs == {1, Len(Documents)}

\* the document of the tree viewer (TreeViewer.uri); no language has it
TreeViewerDoc == Len(Documents) + 1

\* getEditorFileTree(parsersDir, editor) called: the call to be awaited, with
\* the FileTree it will give (undefined when getLanguage or FileTree.new fail)
getEditorFileTree(editor, hasParser) ==
    [editor |-> editor,
     result |-> IF hasParser /\ editor # TreeViewerDoc THEN editor ELSE Undefined]

\* a listener calls activeFileTree.set(await getEditorFileTree(..))
AwaitFileTree(editor, hasParser) ==
    /\ Len(pending) < MaxPending
    /\ pending' = Append(pending, getEditorFileTree(editor, hasParser))
    /\ latest' = [editor |-> editor,
                  result |-> getEditorFileTree(editor, hasParser).result,
                  raced |-> \E i \in 1..Len(pending) : pending[i].editor # editor]
    /\ UNCHANGED activeFileTree

RemoveAt(seq, i) == SubSeq(seq, 1, i - 1) \o SubSeq(seq, i + 1, Len(seq))

InitExt ==
    /\ activeEditor \in OpenDocs
    /\ activeFileTree = Undefined
    /\ selections = << Selection(0, 0) >>
    /\ lastCmd = "activate"
    /\ before = <<>>
    /\ origin = 0
    /\ calls = 0
    /\ found = NoCall
    /\ active = TRUE
    /\ blockModeActive = FALSE
    /\ colorsEnabled = TRUE
    /\ highlights = NoHighlights
    /\ arg = ""
    /\ logged = ""
    /\ snapshotUse = "fresh"
    /\ \E hasParser \in BOOLEAN :
          /\ pending = << getEditorFileTree(activeEditor, hasParser) >>
          /\ latest = [editor |-> activeEditor, result |-> pending[1].result,
                       raced |-> FALSE]
    /\ MigrationSkipped

\* what an operation that is no block command leaves in the history of
\* the block commands
NoBlockCommand ==
    /\ before' = <<>>
    /\ arg' = ""
    /\ logged' = ""

\* the listeners of blockModeActive.onDidChange and colorConfig.onDidChange
\* of block mode: resetDecorations(), then updateTargetHighlights for the
\* active editor
ResetAndUpdateHighlights ==
    highlights' = IF activeEditor = Undefined THEN resetDecorations(highlights)
                  ELSE updateTargetHighlights(resetDecorations(highlights),
                                              activeEditor, selections[1],
                                              activeFileTree', blockModeActive',
                                              colorsEnabled')

\* vscode.window.onDidChangeActiveTextEditor fires with editor e (Undefined
\* when the last editor was closed): the listener of the extension, and
\* resetDecorations, the listener of block mode
ChangeActiveTextEditor(e, hasParser) ==
    /\ e # activeEditor
    /\ activeEditor' = e
    /\ selections' = IF e = Undefined THEN <<>> ELSE << Selection(0, 0) >>
    /\ lastCmd' = "changeActiveTextEditor"
    /\ origin' = IF e = Undefined THEN NoOrigin ELSE 0
    /\ calls' = 0
    /\ IF ~active \/ e = TreeViewerDoc
         THEN UNCHANGED << activeFileTree, pending, latest, snapshotUse >>
         ELSE IF e = Undefined
         THEN \* getEditorFileTree returns undefined without awaiting anything
              /\ activeFileTree' = Undefined
              /\ latest' = NoRequest
              /\ snapshotUse' = "fresh"
              /\ UNCHANGED pending
         ELSE AwaitFileTree(e, hasParser) /\ UNCHANGED snapshotUse
    /\ highlights' = resetDecorations(highlights)
    /\ NoBlockCommand
    /\ UNCHANGED << found, active, blockModeActive, colorsEnabled >>
    /\ UNCHANGED migVars

\* the i-th awaited getEditorFileTree call completes and its listener goes
\* on with activeFileTree.set(result); the listener of
\* activeFileTree.onDidChange of block mode updates the highlights
ParseCompletes(i) ==
    /\ i \in 1..Len(pending)
    /\ activeFileTree' = pending[i].result
    /\ pending' = RemoveAt(pending, i)
    /\ snapshotUse' = "fresh"
    /\ lastCmd' = "parseCompletes"
    /\ highlights' = IF activeEditor = Undefined THEN highlights
                     ELSE updateTargetHighlights(highlights, activeEditor, selections[1],
                                                 activeFileTree', blockModeActive,
                                                 colorsEnabled)
    /\ NoBlockCommand
    /\ UNCHANGED << activeEditor, selections, origin, calls, found,
                    active, blockModeActive, colorsEnabled, latest >>
    /\ UNCHANGED migVars

\* command codeBlocks.toggleActive and the listeners of active.onDidChange
ToggleActive(hasParser) ==
    /\ active' = ~active
    /\ lastCmd' = "toggleActive"
    /\ IF active' /\ activeEditor # Undefined
         THEN AwaitFileTree(activeEditor, hasParser)
         ELSE UNCHANGED << activeFileTree, pending, latest >>
    \* if (!newActive && blockModeActive.get()) { blockModeActive.set(true); }
    /\ blockModeActive' = IF ~active' /\ blockModeActive THEN TRUE ELSE blockModeActive
    /\ NoBlockCommand
    /\ UNCHANGED << activeEditor, selections, origin, calls, found, colorsEnabled,
                    snapshotUse >>
    \* set(true) runs the listeners of blockModeActive.onDidChange
    /\ IF ~active' /\ blockModeActive
         THEN ResetAndUpdateHighlights
         ELSE UNCHANGED highlights
    /\ UNCHANGED migVars

\* command codeBlocks.toggleBlockMode and the listeners of
\* blockModeActive.onDidChange of block mode and of the extension
ToggleBlockMode(hasParser) ==
    /\ blockModeActive' = ~blockModeActive
    /\ lastCmd' = "toggleBlockMode"
    /\ IF blockModeActive' /\ active /\ activeFileTree = Undefined
            /\ activeEditor # Undefined
         THEN AwaitFileTree(activeEditor, hasParser)
         ELSE UNCHANGED << activeFileTree, pending, latest >>
    /\ NoBlockCommand
    /\ UNCHANGED << activeEditor, selections, origin, calls, found, active,
                    colorsEnabled, snapshotUse >>
    /\ ResetAndUpdateHighlights
    /\ UNCHANGED migVars

\* colorConfig.set(..) with colors enabled or not, by the command
\* codeBlocks.toggleBlockModeColors or by the listener of
\* onDidChangeConfiguration, and the listener of colorConfig.onDidChange
SetColorConfig(enabled) ==
    /\ colorsEnabled' = enabled
    /\ lastCmd' = "setColorConfig"
    /\ NoBlockCommand
    /\ UNCHANGED << activeEditor, activeFileTree, selections, origin, calls, found,
                    active, blockModeActive, pending, latest, snapshotUse >>
    /\ ResetAndUpdateHighlights
    /\ UNCHANGED migVars

\* what every block command leaves alone
BlockCommandFrame ==
    /\ origin' = OriginOf(selections')
    /\ calls' = 0
    /\ logged' = ""
    /\ UNCHANGED << activeEditor, activeFileTree, found,
                    active, blockModeActive, pending, colorsEnabled, latest >>

\* command codeBlocks.selectBlock
SelectBlock ==
    /\ selections' = selectBlock(activeFileTree, activeEditor, selections)
    /\ lastCmd' = "selectBlock"
    /\ before' = selections
    /\ arg' = ""
    /\ OnDidChangeTextEditorSelection
    /\ ServeRequest(FALSE)
    /\ BlockCommandFrame
    /\ UNCHANGED migVars

\* commands codeBlocks.selectParent, selectChild, selectNext, selectPrevious
UpdateSelection(direction) ==
    /\ selections' = updateSelection(activeFileTree, activeEditor, selections, direction)
    /\ lastCmd' = "updateSelection"
    /\ before' = selections
    /\ arg' = direction
    /\ OnDidChangeTextEditorSelection
    /\ ServeRequest(FALSE)
    /\ BlockCommandFrame
    /\ UNCHANGED migVars

\* commands codeBlocks.moveUp and moveDown
MoveSelection(direction, ambiguousTrivia) ==
    LET outcome == moveSelection(activeFileTree, activeEditor, selections, direction,
                                 ambiguousTrivia)
    IN  /\ selections' = outcome.selections
        /\ logged' = outcome.logged
        /\ lastCmd' = "moveSelection"
        /\ before' = selections
        /\ arg' = direction
        /\ OnDidChangeTextEditorSelection
        /\ ServeRequest(outcome.edited)
        /\ origin' = OriginOf(selections')
        /\ calls' = 0
        /\ UNCHANGED << activeEditor, activeFileTree, found,
                        active, blockModeActive, pending, colorsEnabled, latest >>
        /\ UNCHANGED migVars

\* commands codeBlocks.navigateUpForce, navigateDownForce, navigateUp,
\* navigateDown
Navigate(direction) ==
    /\ selections' = navigate(activeFileTree, activeEditor, selections, direction)
    /\ lastCmd' = "navigate"
    /\ before' = selections
    /\ arg' = direction
    /\ OnDidChangeTextEditorSelection
    /\ ServeRequest(FALSE)
    /\ BlockCommandFrame
    /\ UNCHANGED migVars

UpdateSelectionDirection == {"parent", "child", "add-next", "add-previous"}

MoveSelectionDirection == {"swap-previous", "swap-next"}

NavigateDirection == {"up", "down", "left", "right"}

NextExt ==
    \/ \E e \in OpenDocs \cup {Undefined, TreeViewerDoc}, hasParser \in BOOLEAN :
          ChangeActiveTextEditor(e, hasParser)
    \/ \E i \in 1..MaxPending : ParseCompletes(i)
    \/ \E hasParser \in BOOLEAN : ToggleActive(hasParser)
    \/ \E hasParser \in BOOLEAN : ToggleBlockMode(hasParser)
    \/ \E enabled \in BOOLEAN : SetColorConfig(enabled)
    \/ SelectBlock
    \/ \E direction \in MoveSelectionDirection, ambiguousTrivia \in BOOLEAN :
          MoveSelection(direction, ambiguousTrivia)

SpecExt == InitExt /\ [][NextExt]_vars

\* ------------------------------------------- block mode on a parsed document
\* A document is open and parsed; block mode and its colors are switched
\* and the block commands run on it.
InitBlock ==
    /\ activeEditor \in OpenDocs
    /\ activeFileTree = activeEditor
    /\ selections = << Selection(0, 0) >>
    /\ lastCmd = "openDocument"
    /\ before = <<>>
    /\ origin = 0
    /\ calls = 0
    /\ found = NoCall
    /\ ExtIdle
    /\ MigrationSkipped

NextBlock ==
    \/ \E hasParser \in BOOLEAN : ToggleBlockMode(hasParser)
    \/ \E enabled \in BOOLEAN : SetColorConfig(enabled)
    \/ SelectBlock
    \/ \E direction \in UpdateSelectionDirection : UpdateSelection(direction)
    \/ \E direction \in MoveSelectionDirection, ambiguousTrivia \in BOOLEAN :
          MoveSelection(direction, ambiguousTrivia)
    \/ \E direction \in NavigateDirection : Navigate(direction)

SpecBlock == InitBlock /\ [][NextBlock]_vars

\* C11: when editor E2 became active while the parse for editor E1 was
\* still awaited, then once no parse is awaited any more, whichever
\* completed first, the active FileTree is the one of the call made last:
\* the result of a superseded call never overwrites it.
C11_SupersededParseDiscarded ==
    (pending = <<>> /\ latest.raced) => activeFileTree = latest.result

\* the commands of block mode and pair selection that are modelled; each
\* reads codeBlocks.activeFileTree and vscode.window.activeTextEditor
BlockModeCommands ==
    {"selectBlock", "updateSelection", "moveSelection", "navigate",
     "selectInside", "selectSurroundingPair"}

\* C12: whenever a block-mode command has read the active FileTree and the
\* active editor, that FileTree was built from the active editor's document,
\* also after the extension was toggled inactive and active and after a
\* switch to the tree viewer's document.
C12_TreeOfActiveEditor ==
    ( /\ lastCmd \in BlockModeCommands
      /\ activeEditor # Undefined
      /\ activeFileTree # Undefined )
    => activeFileTree = activeEditor

\* C13: after a moveSelection command produced a text edit, the FileTree that
\* produced it is replaced in the active FileTree slot before the next
\* block-mode command reads the slot: no command is served by a FileTree
\* that has produced an edit.
C13_FreshSnapshotAfterMove == snapshotUse # "reused"

\* a block command ran with a FileTree and an editor, and the editor's
\* selection resolved to a Selection
ResolvedBefore ==
    /\ activeFileTree # Undefined
    /\ activeEditor # Undefined
    /\ resolveVscodeSelection(Tree(activeFileTree), before[1]) # NoSelection

\* C14: after the moveSelection command with a resolved Selection, either
\* fileTree.moveSelection returned status "err", the editor's selection is as
\* before and the reason went to the logger, or it returned status "ok",
\* the editor's selection is the returned range and nothing was logged.
C14_SelectionOnlyOnOk ==
    (lastCmd = "moveSelection" /\ ResolvedBefore)
    => \E ambiguousTrivia \in BOOLEAN :
          LET t == Tree(activeFileTree)
              result == fileTreeMoveSelection(
                            t, resolveVscodeSelection(t, before[1]), arg,
                            ambiguousTrivia)
          IN  \/ /\ result.status = "err"
                 /\ selections = before
                 /\ logged = result.reason
                 /\ logged # ""
              \/ /\ result.status = "ok"
                 /\ selections = << result.range >>
                 /\ logged = ""

\* a move failed at the last sibling: selection kept, reason logged
C14_Witness ==
    /\ lastCmd = "moveSelection"
    /\ ResolvedBefore
    /\ logged = "NoAdjacentSibling"
    /\ selections = before

\* a block command ran with a FileTree and an editor, and the editor's
\* selection did not resolve to a Selection
UnresolvedBefore ==
    /\ activeFileTree # Undefined
    /\ activeEditor # Undefined
    /\ resolveVscodeSelection(Tree(activeFileTree), before[1]) = NoSelection

\* C15: when the editor's selection does not resolve to a Selection,
\* updateSelection, moveSelection and navigate leave the editor's selection
\* as it was, and no move is attempted: no text edit, nothing logged.
C15_UnresolvedNoChange ==
    ( /\ lastCmd \in {"updateSelection", "moveSelection", "navigate"}
      /\ UnresolvedBefore )
    => /\ selections = before
       /\ logged = ""
       /\ snapshotUse # "edited"

\* an updateSelection command ran with an empty cursor away from the start
\* of the document, which resolves to no Selection
C15_Witness ==
    /\ lastCmd = "updateSelection"
    /\ UnresolvedBefore
    /\ isEmpty(before[1])
    /\ before[1].start > 0
    /\ selections = before

\* findContainingPair was applied and returned a Pair
ProbedPair == Probed /\ found.pair # NoPair

\* C16: every Pair returned by findContainingPair has its open
\* range before and disjoint from its close range, and its contentRange runs
\* from the end of open to the start of close, also for a node whose first
\* child and last child are the same node.
C16_OpenBeforeCloseContentBetween ==
    ProbedPair
    => /\ found.pair.open.range.end <= found.pair.close.range.start
       /\ found.pair.contentRange.start = found.pair.open.range.end
       /\ found.pair.contentRange.start <= found.pair.contentRange.end
       /\ found.pair.contentRange.end = found.pair.close.range.start

\* C17: a Pair whose node is a jsx_element is returned only for one whose
\* first child is a jsx_opening_element and whose last child is a
\* jsx_closing_element; started at a jsx_element that fails either check,
\* findContainingPair does not stop there but gives what the walk from its
\* parent gives, which may be an outer pair.
C17_JsxNeedsBothTags ==
    (Probed /\ found.start # Null) =>
        LET t == Tree(found.tree)
            outer == ClaimInnermostKind(t, ClaimChain(t, t[found.start].parent))
        IN  /\ (found.pair # NoPair /\ t[found.pair.node].type = "jsx_element")
                   => ClaimAcceptedJsx(t, found.pair.node)
            /\ (t[found.start].type = "jsx_element"
                    /\ ~ClaimAcceptedJsx(t, found.start))
                   => /\ found.pair.node # found.start
                      /\ IF outer = Null \/ t[outer].children = <<>>
                         THEN found.pair = NoPair
                         ELSE /\ found.pair.node = outer
                              /\ found.pair.open.range = ClaimOpenOf(t, outer)
                              /\ found.pair.close.range = ClaimCloseOf(t, outer)

\* the walk started at a jsx_element without closing tag and returned the
\* pair of the parentheses around it
C17_Witness ==
    /\ Probed
    /\ found.start # Null
    /\ Tree(found.tree)[found.start].type = "jsx_element"
    /\ ~ClaimAcceptedJsx(Tree(found.tree), found.start)
    /\ found.pair # NoPair
    /\ Tree(found.tree)[found.pair.node].type = "parenthesized_expression"

\* the Selection the editor's selection resolved to before the last command
ClaimResolved == resolveVscodeSelection(Tree(activeFileTree), before[1])

\* the Selection navigate goes to in a direction, NoSelection if none
ClaimTarget(t, selection, direction) ==
    CASE direction \in {"up", "down"} -> getParent(t, selection)
      [] direction = "left" -> getPrevious(t, selection)
      [] direction = "right" -> getNext(t, selection)

\* the column of the target navigate goes to: its end for "down", else its start
ClaimTargetColumn(t, target, direction) ==
    IF direction = "down" THEN t[target.last].endPosition
    ELSE t[target.first].startPosition

\* C18: navigate with a resolved Selection places an empty cursor at the
\* start of the parent for "up", at the end of the parent for "down", at the
\* start of the previous sibling for "left" and at the start of the next
\* sibling for "right"; without that target the selection is unchanged.
C18_NavigateTargets ==
    (lastCmd = "navigate" /\ ResolvedBefore) =>
        LET t == Tree(activeFileTree)
            target == ClaimTarget(t, ClaimResolved, arg)
        IN  IF target = NoSelection THEN selections = before
            ELSE selections =
                     << [start |-> ClaimTargetColumn(t, target, arg),
                         end |-> ClaimTargetColumn(t, target, arg)] >>

\* navigate "down" from a statement inside the block has put the cursor at
\* the end of the block
C18_Witness ==
    /\ lastCmd = "navigate"
    /\ ResolvedBefore
    /\ arg = "down"
    /\ getParent(Tree(activeFileTree), ClaimResolved) # NoSelection
    /\ Tree(activeFileTree)[Tree(activeFileTree)[ClaimResolved.first].parent].parent # Null
    /\ selections # before

\* the Selection the editor's selection resolves to now
ClaimCurrent == resolveVscodeSelection(Tree(activeFileTree), selections[1])

\* a Selection whose first node has no parent: the whole file
ClaimWholeFile(t, selection) ==
    selection # NoSelection /\ t[selection.first].parent = Null

\* C19: a parent highlight is the range of the parent of the current
\* Selection, that parent is not the whole file, and the current Selection
\* lacks a previous or a next sibling; navigate "up" and "down" from a
\* Selection whose parent is the whole file do go to that parent's start
\* and end.
C19_NoWholeFileHighlight ==
    /\ (highlights.parent # {}) =>
           /\ activeFileTree # Undefined
           /\ selections # <<>>
           /\ ClaimCurrent # NoSelection
           /\ LET t == Tree(activeFileTree)
                  up == getParent(t, ClaimCurrent)
              IN  /\ up # NoSelection
                  /\ ~ClaimWholeFile(t, up)
                  /\ highlights.parent = {toVscodeSelection(t, up)}
                  /\ \/ getPrevious(t, ClaimCurrent) = NoSelection
                     \/ getNext(t, ClaimCurrent) = NoSelection
    /\ ( /\ lastCmd = "navigate"
         /\ arg \in {"up", "down"}
         /\ ResolvedBefore
         /\ ClaimWholeFile(Tree(activeFileTree),
                           getParent(Tree(activeFileTree), ClaimResolved)) )
       => LET t == Tree(activeFileTree)
              column == IF arg = "up" THEN t[rootNode].startPosition
                        ELSE t[rootNode].endPosition
          IN  selections = << [start |-> column, end |-> column] >>

\* block mode with colors: the block `{a;b;c;}` is selected, it has no
\* previous sibling and its parent is the whole file; its next sibling is
\* highlighted, the parent is not
C19_Witness ==
    /\ blockModeActive
    /\ colorsEnabled
    /\ activeFileTree # Undefined
    /\ selections # <<>>
    /\ ClaimCurrent # NoSelection
    /\ ClaimWholeFile(Tree(activeFileTree), getParent(Tree(activeFileTree), ClaimCurrent))
    /\ getPrevious(Tree(activeFileTree), ClaimCurrent) = NoSelection
    /\ highlights.sibling # {}
    /\ highlights.parent = {}

\* C20: sibling or parent highlight ranges are set on an editor only while
\* block mode is active, colors are enabled and the editor's document is the
\* active FileTree's document; with block mode off or colors disabled no
\* highlight is left.
C20_HighlightsOnlyWhenOn ==
    (highlights.sibling \cup highlights.parent # {})
    => /\ blockModeActive
       /\ colorsEnabled
       /\ activeFileTree # Undefined
       /\ highlights.editor = activeFileTree

(***************************************************************************)
(* C21: whenever the extension's active flag changes to false while block  *)
(* mode is on, block mode is switched off: after the listener of           *)
(* codeBlocks.active.onDidChange has run, blockModeActive is false.         *)
(* Stated on the state that toggleActive and its listeners leave: if       *)
(* active is now false, blockModeActive is false (block mode that was off  *)
(* before stays off, so the state before need not be named).               *)
(***************************************************************************)
C21_InactiveSwitchesBlockModeOff ==
    (lastCmd = "toggleActive" /\ ~active) => ~blockModeActive

\* --------------------------------------------------- the parsers migration
\* The extension is activated again and again (one window at a time) on a
\* machine whose parsers directories are in any state; the user answers or
\* dismisses the prompt, copies succeed or fail, parsers get installed.
MaxActivations == 3

\* the orders in which readdirSync may list the entries S
Orders(S) ==
    { order \in [1..Cardinality(S) -> S] :
        \A i, j \in 1..Cardinality(S) : i # j => order[i] # order[j] }

InitMigration ==
    /\ activeEditor = Undefined
    /\ activeFileTree = Undefined
    /\ selections = <<>>
    /\ lastCmd = "activate"
    /\ before = <<>>
    /\ origin = NoOrigin
    /\ calls = 0
    /\ found = NoCall
    /\ ExtIdle
    /\ decision = NoDecision
    /\ \E exists \in BOOLEAN, entries \in SUBSET DirEntries :
          currentParsersDir = Dir(exists, entries)
    /\ \E installed, exists \in BOOLEAN, entries \in SUBSET DirEntries :
          originalExt = OriginalExt(installed, exists, entries)
    /\ migration = [pc |-> "off", remaining |-> <<>>]
    /\ activation = NoActivation

\* activate(context): shouldOfferMigration runs up to the prompt, or returns
\* "skip", on which the migration block of activate does nothing
Activate(throws) ==
    /\ migration.pc = "off"
    /\ activation.count < MaxActivations
    /\ LET due == promptDue(decision, currentParsersDir, originalExt, throws)
       IN  /\ migration' = [pc |-> IF due THEN "prompt" ELSE "on", remaining |-> <<>>]
           /\ activation' = [count |-> activation.count + 1,
                             decisionAtStart |-> decision,
                             current |-> currentParsersDir,
                             original |-> originalExt,
                             throws |-> throws,
                             prompted |-> due,
                             copied |-> {},
                             outcome |-> IF due THEN "none" ELSE "skip",
                             previous |-> activation.outcome]
    /\ UNCHANGED << decision, currentParsersDir, originalExt >>
    /\ UNCHANGED << pairVars, extVars >>

\* the user answers the prompt with selection, or dismisses it:
\* shouldOfferMigration returns and activate's migration block acts on it;
\* for "migrate", performMigration runs up to its first copy, listing the
\* entries in order
ShowInformationMessage(selection, order) ==
    /\ migration.pc = "prompt"
    /\ LET action == shouldOfferMigration(activation.decisionAtStart, activation.current,
                                          activation.original, activation.throws,
                                          selection)
           copies == action = "migrate" /\ performMigrationStarts(originalExt)
       IN  /\ decision' = IF action = "never" THEN "never"
                          ELSE IF action = "later" THEN "later"
                          ELSE decision
           \* await fs.promises.mkdir(currentParsersDir, { recursive: true })
           /\ currentParsersDir' = IF copies
                                   THEN Dir(TRUE, currentParsersDir.entries)
                                   ELSE currentParsersDir
           /\ migration' = IF copies THEN [pc |-> "copying", remaining |-> order]
                           ELSE [pc |-> "on", remaining |-> <<>>]
           /\ activation' = [activation EXCEPT !.outcome =
                                IF copies THEN "none"
                                ELSE IF action = "migrate" THEN "gone"
                                ELSE IF action = "skip" THEN "dismissed"
                                ELSE action]
    /\ UNCHANGED originalExt
    /\ UNCHANGED << pairVars, extVars >>

\* await cp(src, dest, { recursive: true, force: false }) for the next entry:
\* it succeeds, or it throws, having written the entry in part or not at
\* all; the catch of performMigration logs and stores nothing
Cp(ok, partial) ==
    /\ migration.pc = "copying"
    /\ migration.remaining # <<>>
    /\ LET entry == Head(migration.remaining)
       IN  /\ currentParsersDir' =
                 IF ok \/ partial
                 THEN Dir(TRUE, currentParsersDir.entries \cup {entry})
                 ELSE currentParsersDir
           /\ migration' = IF ok
                           THEN [pc |-> "copying", remaining |-> Tail(migration.remaining)]
                           ELSE [pc |-> "on", remaining |-> <<>>]
           /\ activation' = IF ok
                            THEN [activation EXCEPT !.copied = @ \cup {entry}]
                            ELSE [activation EXCEPT !.outcome = "failed"]
    /\ UNCHANGED << decision, originalExt >>
    /\ UNCHANGED << pairVars, extVars >>

\* every entry was copied: withProgress resolves and
\* context.globalState.update(MIGRATION_STATE_KEY, "migrated") runs
MigrationCompleted ==
    /\ migration.pc = "copying"
    /\ migration.remaining = <<>>
    /\ decision' = "migrated"
    /\ migration' = [pc |-> "on", remaining |-> <<>>]
    /\ activation' = [activation EXCEPT !.outcome = "migrated"]
    /\ UNCHANGED << currentParsersDir, originalExt >>
    /\ UNCHANGED << pairVars, extVars >>

\* getLanguage(parsersDir, languageId) installs the parser f of a document's
\* language into the parsers directory
GetLanguage(f) ==
    /\ migration.pc # "off"
    /\ ~startsWith(f, ".")
    /\ f \notin currentParsersDir.entries
    /\ currentParsersDir' = Dir(TRUE, currentParsersDir.entries \cup {f})
    /\ UNCHANGED << decision, originalExt, migration, activation >>
    /\ UNCHANGED << pairVars, extVars >>

\* the user uninstalls the original extension
UninstallOriginal ==
    /\ originalExt.installed
    /\ originalExt' = OriginalExt(FALSE, FALSE, {})
    /\ UNCHANGED << decision, currentParsersDir, migration, activation >>
    /\ UNCHANGED << pairVars, extVars >>

\* the window is closed; a prompt still open goes away unanswered
Deactivate ==
    /\ migration.pc \in {"on", "prompt"}
    /\ migration' = [pc |-> "off", remaining |-> <<>>]
    /\ activation' = IF migration.pc = "prompt"
                     THEN [activation EXCEPT !.outcome = "dismissed"]
                     ELSE activation
    /\ UNCHANGED << decision, currentParsersDir, originalExt >>
    /\ UNCHANGED << pairVars, extVars >>

NextMigration ==
    \/ \E throws \in BOOLEAN : Activate(throws)
    \/ \E selection \in PromptSelections,
          order \in Orders(readdirNotHidden(originalExt.entries)) :
          ShowInformationMessage(selection, order)
    \/ \E ok, partial \in BOOLEAN : Cp(ok, partial)
    \/ MigrationCompleted
    \/ \E f \in DirEntries : GetLanguage(f)
    \/ UninstallOriginal
    \/ Deactivate

SpecMigration == InitMigration /\ [][NextMigration]_vars

\* the entries of a directory listing whose name does not begin with a dot
ClaimNotHidden(entries) == { f \in entries : f[1] # "." }

\* the stored decision closes the migration
ClaimClosed(d) == d \in {"migrated", "never"}

(***************************************************************************)
(* C22: the parser migration is one-time.  For the last activation and     *)
(* what it has done so far:                                                *)
(*  - if the stored decision was "migrated" or "never" when it started, it *)
(*    showed no prompt, copied nothing and left the decision as it was;    *)
(*  - if it stored "migrated", it copied every non-hidden entry of the     *)
(*    original parsers directory and no copy failed;                       *)
(*  - if it stored "later", its prompt was dismissed or a copy failed, the *)
(*    decision is still open (neither "migrated" nor "never");             *)
(*  - if it showed the prompt, the current parsers directory had no        *)
(*    non-hidden entry and the original one had at least one.              *)
(* That a later activation may offer the migration again is a possibility, *)
(* shown by C22_OfferedAgain being reachable.                              *)
(***************************************************************************)
C22_MigrationOneTime ==
    /\ (activation.count > 0 /\ ClaimClosed(activation.decisionAtStart))
       => /\ ~activation.prompted
          /\ migration.pc \notin {"prompt", "copying"}
          /\ activation.copied = {}
          /\ decision = activation.decisionAtStart
    /\ (decision = "migrated" /\ activation.decisionAtStart # "migrated")
       => /\ activation.outcome = "migrated"
          /\ activation.copied = ClaimNotHidden(activation.original.entries)
    /\ activation.outcome \in {"later", "dismissed", "failed"}
       => ~ClaimClosed(decision)
    /\ activation.prompted
       => /\ ClaimNotHidden(activation.current.entries) = {}
          /\ ClaimNotHidden(activation.original.entries) # {}

\* an activation found the directories as the prompt needs them, and showed
\* no prompt because the decision was stored by an earlier activation
C22_Witness ==
    /\ activation.count > 1
    /\ ClaimClosed(activation.decisionAtStart)
    /\ migration.pc = "on"
    /\ ~activation.throws
    /\ ClaimNotHidden(activation.current.entries) = {}
    /\ ClaimNotHidden(activation.original.entries) # {}

\* the prompt is shown again by the activation after one that stored
\* "later", whose prompt was dismissed, or whose copy failed
C22_OfferedAgain ==
    /\ activation.prompted
    /\ activation.previous \in {"later", "dismissed", "failed"}

====
